---------------------------- MODULE Spec2Model ----------------------------
(***************************************************************************)
(* Gemini-Particle-Flower: the gesture classifier client, the camera       *)
(* source, the gesture sampler, the gesture state of App and the particle  *)
(* engine, as state machines.                                              *)
(*                                                                         *)
(* React state is modelled as React keeps it: a hook's cell (the value the *)
(* last render saw, which is also what the closures of that render hold)   *)
(* and the queue of updates a set-state call leaves for the next render.   *)
(***************************************************************************)
EXTENDS Integers, Sequences, FiniteSets, TLC

VARIABLES
    \* ---- services/gemini.ts (src/unnamed/part_001)
    apiKey,            \* process.env.API_KEY is a non-empty string
    callState,         \* "idle" | "pending" | "returned"
    response,          \* what ai.models.generateContent produced for the call
    returned,          \* the value the promise of detectHandGesture resolved to
    \* ---- App.tsx
    cameraGesture,     \* useState cell
    isShiftPressed,    \* useState cell
    appQueue,          \* the update setCameraGesture queued, if any
    currentGesture,    \* the prop handed to ParticleCanvas and GestureControl
    lastPublished,     \* history: the last label handed to onGestureDetected, and
                       \* whether Shift was held when it was
    \* ---- GestureControl (src/components/ParticleCanvas.tsx, lines 197-438)
    gc,                \* the component: its refs, its useState cells, its queue
    live,              \* the MediaStreams whose tracks have not been stopped
    acq,               \* the running startCamera call: its place and what it caught
    attempt,           \* how many times startCamera has been called
    inFlight,          \* calls of detectHandGesture that have not settled
    \* ---- ParticleCanvas (src/components/ParticleCanvas.tsx, lines 1-196)
    particlesRef,      \* the population: a sequence of [x, y, vx, vy]
    dimensionsRef,     \* [width, height]
    mouseRef,          \* [x, y]
    window,            \* [innerWidth, innerHeight]
    effect,            \* the running effect: whether it is set up, the gesture
                       \* its closures hold
    animationFrameRef, \* the id requestAnimationFrame returned last
    frames,            \* the animation-frame callbacks waiting to run
    canvasLog          \* history: the frame ids handed out, calls of initParticles

classifierVars == <<apiKey, callState, response, returned>>
appVars == <<cameraGesture, isShiftPressed, appQueue, currentGesture, lastPublished>>
gcVars == <<gc, live, acq, attempt, inFlight>>
canvasVars == <<particlesRef, dimensionsRef, mouseRef, window, effect,
                animationFrameRef, frames, canvasLog>>
vars == <<classifierVars, appVars, gcVars, canvasVars>>

-----------------------------------------------------------------------------
(* types.ts: enum GestureType *)
FIST == "FIST"
OPEN == "OPEN"
NONE == "NONE"
GestureType == {FIST, OPEN, NONE}

\* JavaScript's undefined, and a string the enum does not hold
Undefined == "undefined"
PEACE == "PEACE"
\* a hook's queue: empty, or the value the last set-state call gave
NoUpdate == <<>>
Update(value) == <<value>>
Apply(cell, queue) == IF queue = NoUpdate THEN cell ELSE queue[1]

-----------------------------------------------------------------------------
(***************************************************************************)
(* Text.  A string is a sequence of lexical pieces: the Markdown fence     *)
(* (three backquotes), the tag "json", another tag, one white-space character, or one   *)
(* complete piece of payload text.  The regular expressions and JSON.parse *)
(* of detectHandGesture only ever look at these pieces as wholes.          *)
(***************************************************************************)
\* three backquotes
FENCE == "<fence>"
TAG_JSON == "json"
TAG_OTHER == "JSON"
SP == " "
NL == "\n"
WhiteSpace == {SP, NL}

ObjText(g) == "{\"gesture\":\"" \o g \o "\"}"
EMPTY_OBJECT == "{}"
NULL_TEXT == "null"
NUMBER_TEXT == "5"
PROSE == "I see a fist"

\* payload texts that are one JSON value, and the value JSON.parse makes of each
JsonTexts == {ObjText(FIST), ObjText(OPEN), ObjText(NONE), ObjText(PEACE),
              EMPTY_OBJECT, NULL_TEXT, NUMBER_TEXT}

JsonValue(t) ==
    CASE t = ObjText(FIST)  -> [type |-> "object", gesture |-> FIST]
      [] t = ObjText(OPEN)  -> [type |-> "object", gesture |-> OPEN]
      [] t = ObjText(NONE)  -> [type |-> "object", gesture |-> NONE]
      [] t = ObjText(PEACE) -> [type |-> "object", gesture |-> PEACE]
      [] t = EMPTY_OBJECT   -> [type |-> "object", gesture |-> Undefined]
      [] t = NULL_TEXT      -> [type |-> "null", gesture |-> Undefined]
      [] OTHER              -> [type |-> "number", gesture |-> Undefined]

SyntaxError == [type |-> "SyntaxError", gesture |-> Undefined]

RECURSIVE TrimStart(_)
TrimStart(s) ==
    IF s # <<>> /\ Head(s) \in WhiteSpace THEN TrimStart(Tail(s)) ELSE s

RECURSIVE TrimEnd(_)
TrimEnd(s) ==
    IF s # <<>> /\ s[Len(s)] \in WhiteSpace
    THEN TrimEnd(SubSeq(s, 1, Len(s) - 1))
    ELSE s

\* String.prototype.startsWith of the fence, line 59
StartsWithFence(s) == s # <<>> /\ Head(s) = FENCE

\* .replace(/^```json\s*/, "")
ReplaceJsonFence(s) ==
    IF Len(s) >= 2 /\ s[1] = FENCE /\ s[2] = TAG_JSON
    THEN TrimStart(SubSeq(s, 3, Len(s)))
    ELSE s

\* .replace(/^```\s*/, "")
ReplaceOpenFence(s) ==
    IF StartsWithFence(s) THEN TrimStart(Tail(s)) ELSE s

\* .replace(/\s*```$/, ""): without the m flag, $ is the end of the input only
ReplaceCloseFence(s) ==
    IF s # <<>> /\ s[Len(s)] = FENCE
    THEN TrimEnd(SubSeq(s, 1, Len(s) - 1))
    ELSE s

\* the sanitising of lines 59-61
Sanitize(jsonText) ==
    IF StartsWithFence(jsonText)
    THEN ReplaceCloseFence(ReplaceOpenFence(ReplaceJsonFence(jsonText)))
    ELSE jsonText

\* JSON.parse: white space around one JSON value is allowed, nothing else is
JSONParse(s) ==
    LET t == TrimEnd(TrimStart(s))
    IN  IF Len(t) = 1 /\ t[1] \in JsonTexts THEN JsonValue(t[1]) ELSE SyntaxError

(***************************************************************************)
(* detectHandGesture, from the outcome of the vision call to the value its *)
(* promise resolves to.  rsp.kind is "throw" (generateContent rejected) or *)
(* "text"; rsp.text = <<>> is response.text being empty or undefined.      *)
(***************************************************************************)
GestureOfResponse(rsp) ==
    IF rsp.kind = "throw" THEN NONE                       \* catch, line 69
    ELSE LET jsonText == IF rsp.text = <<>> THEN <<EMPTY_OBJECT>> ELSE rsp.text
             result   == JSONParse(Sanitize(jsonText))
         IN  CASE result.type = "SyntaxError" -> NONE     \* JSON.parse threw
               [] result.type = "null"        -> NONE     \* null.gesture threw
               [] OTHER                       -> result.gesture

detectHandGesture(key, rsp) ==
    IF ~key THEN NONE ELSE GestureOfResponse(rsp)

-----------------------------------------------------------------------------
(* The outcomes of ai.models.generateContent that the model draws from. *)
MaxPad == 1

RECURSIVE Pads(_)
Pads(n) ==
    IF n = 0 THEN {<<>>}
    ELSE Pads(n - 1) \cup {<<w>> \o p : w \in WhiteSpace, p \in Pads(n - 1)}

Tags == {<<>>, <<TAG_JSON>>, <<TAG_OTHER>>}

\* nothing, or (white space) ``` (tag) (white space)
Opens ==
    {<<>>} \cup {lead \o <<FENCE>> \o tag \o pad :
                    lead \in Pads(MaxPad), tag \in Tags, pad \in Pads(MaxPad)}

\* nothing, or (white space) ``` (white space)
Closes ==
    {<<>>} \cup {pad \o <<FENCE>> \o trail :
                    pad \in Pads(MaxPad), trail \in Pads(MaxPad)}

Bodies == {<<>>, <<PROSE>>} \cup {<<t>> : t \in JsonTexts}

Responses ==
    {[kind |-> "throw", open |-> <<>>, body |-> <<>>, close |-> <<>>]}
    \cup [kind : {"text"}, open : Opens, body : Bodies, close : Closes]

NoResponse == [kind |-> "none", open |-> <<>>, body |-> <<>>, close |-> <<>>]

\* response.text
TextOf(rsp) == rsp.open \o rsp.body \o rsp.close

-----------------------------------------------------------------------------
(* services/gemini.ts as a process: one call of detectHandGesture *)

InitClassifier ==
    /\ apiKey \in BOOLEAN
    /\ callState = "idle"
    /\ response = NoResponse
    /\ returned = NONE

\* detectHandGesture is called: without a key it resolves at once (line 9)
CallDetect ==
    /\ callState # "pending"
    /\ response' = NoResponse
    /\ IF apiKey
       THEN callState' = "pending" /\ returned' = returned
       ELSE callState' = "returned" /\ returned' = NONE
    /\ UNCHANGED apiKey

\* generateContent settles and the rest of the function runs (lines 18-72)
ApiSettles ==
    /\ callState = "pending"
    /\ \E rsp \in Responses :
          /\ response' = rsp
          /\ returned' = detectHandGesture(apiKey,
                            [kind |-> rsp.kind, text |-> TextOf(rsp)])
    /\ callState' = "returned"
    /\ UNCHANGED apiKey

-----------------------------------------------------------------------------
(***************************************************************************)
(* App.tsx                                                                 *)
(***************************************************************************)

\* a camera label of OPEN beating the key
CombineGestureCameraWins(shift, camera) ==
    IF camera = OPEN THEN OPEN ELSE IF shift THEN FIST ELSE camera

\* line 12
CombineGesture(shift, camera) == IF shift THEN FIST ELSE camera

InitApp ==
    /\ cameraGesture = NONE
    /\ isShiftPressed = FALSE
    /\ appQueue = NoUpdate
    /\ currentGesture = NONE
    /\ lastPublished = [label |-> NONE, held |-> FALSE]

(* A key event is a discrete event: React renders its update before the    *)
(* event returns, and that render leaves the updates queued from timers    *)
(* and promises (appQueue) for the render they were scheduled for.         *)
SetShift(pressed) ==
    /\ isShiftPressed' = pressed
    /\ currentGesture' = CombineGesture(pressed, cameraGesture)
    /\ UNCHANGED <<cameraGesture, appQueue, lastPublished>>

\* a label published while Shift is held being dropped
PublishUnlessHeld(label) ==
    /\ appQueue' = IF isShiftPressed THEN appQueue ELSE Update(label)
    /\ lastPublished' = [label |-> label, held |-> isShiftPressed]
    /\ UNCHANGED <<cameraGesture, isShiftPressed, currentGesture>>

\* onGestureDetected = setCameraGesture, called from the sampler's continuation
Publish(label) ==
    /\ appQueue' = Update(label)
    /\ lastPublished' = [label |-> label, held |-> isShiftPressed]
    /\ UNCHANGED <<cameraGesture, isShiftPressed, currentGesture>>

\* the App part of a render: the queued label reaches the cell, line 12 runs
RenderAppPart ==
    LET camera == Apply(cameraGesture, appQueue)
    IN  /\ cameraGesture' = camera
        /\ appQueue' = NoUpdate
        /\ currentGesture' = CombineGesture(isShiftPressed, camera)
        /\ UNCHANGED <<isShiftPressed, lastPublished>>

-----------------------------------------------------------------------------
(***************************************************************************)
(* GestureControl: CameraSource                                            *)
(***************************************************************************)
Null == "null"

\* the MediaStream the n-th call of startCamera obtained
Stream(n) == "stream-" \o ToString(n)

MSG_GENERIC == "Unable to access camera."
MSG_DENIED == "Permission denied. Please allow camera access."
MSG_IN_USE == "Camera is in use by another app."
MSG_NOT_FOUND == "No camera found."
MSG_HARDWARE == "Hardware error: Camera may be busy."

\* a caught value: its name, and whether its message holds
\* "Could not start video source"
Err(name, startMsg) == [name |-> name, startMsg |-> startMsg]
NoErr == Err("none", FALSE)

\* what getUserMedia and enumerateDevices reject with
MediaErrors ==
    {Err("NotAllowedError", FALSE), Err("NotReadableError", FALSE),
     Err("NotFoundError", FALSE), Err("OverconstrainedError", FALSE),
     Err("AbortError", TRUE), Err("DevicesNotFoundError", FALSE)}

\* line 299: new Error("No video input devices found")
NoDevicesError == Err("Error", FALSE)

\* a set-state call: a no-op once the component is unmounted; from a discrete
\* event (sync) the cell is written by the render that ends the event, which
\* also decides over an older queued update of the same cell
SetState(g, cell, queue, value, sync) ==
    IF ~g.mounted THEN g
    ELSE IF sync THEN [g EXCEPT ![cell] = value, ![queue] = NoUpdate]
    ELSE [g EXCEPT ![queue] = Update(value)]

setIsCameraReady(g, value, sync) == SetState(g, "isCameraReady", "qReady", value, sync)
\* a set-state call with null ignored
setErrorNeverCleared(g, value, sync) ==
    IF value = Null THEN g ELSE SetState(g, "error", "qError", value, sync)
setError(g, value, sync) == SetState(g, "error", "qError", value, sync)
setIsProcessing(g, value, sync) == SetState(g, "isProcessing", "qProcessing", value, sync)

\* lines 218-227; videoRef.current is the element while mounted, null after
stopCamera(g, sync) ==
    LET g1 == [g EXCEPT !.streamRef = Null]
        g2 == IF g.mounted
              THEN [g1 EXCEPT !.srcObject = Null, !.videoDims = FALSE,
                              !.metadataPending = FALSE]
              ELSE g1
    IN  setIsCameraReady(g2, FALSE, sync)

\* the tracks stopCamera stops, line 220
stopTracks(g, streams) ==
    IF g.streamRef # Null THEN streams \ {g.streamRef} ELSE streams

\* the stream kept in the ref but never given to the video element
handleStreamSuccessUnbound(g, stream) ==
    setError([g EXCEPT !.streamRef = stream], Null, FALSE)

\* lines 229-239
handleStreamSuccess(g, stream) ==
    LET g1 == [g EXCEPT !.streamRef = stream]
        g2 == IF g.mounted
              THEN [g1 EXCEPT !.srcObject = stream, !.videoDims = FALSE,
                              !.metadataPending = TRUE]
              ELSE g1
    IN  setError(g2, Null, FALSE)

\* the first test of handleError reading the message instead of the name
ErrorMessageByText(err) ==
    IF err.name \in {"NotReadableError", "TrackStartError"} THEN MSG_IN_USE
    ELSE IF err.name \in {"NotFoundError", "DevicesNotFoundError"} THEN MSG_NOT_FOUND
    ELSE IF err.startMsg THEN MSG_HARDWARE
    ELSE MSG_GENERIC

\* lines 241-256
ErrorMessage(err) ==
    IF err.name \in {"NotAllowedError", "PermissionDeniedError"} THEN MSG_DENIED
    ELSE IF err.name \in {"NotReadableError", "TrackStartError"} THEN MSG_IN_USE
    ELSE IF err.name \in {"NotFoundError", "DevicesNotFoundError"} THEN MSG_NOT_FOUND
    ELSE IF err.startMsg THEN MSG_HARDWARE
    ELSE MSG_GENERIC

handleError(g, err) == setError(g, ErrorMessage(err), FALSE)

\* the interval armed whatever isCameraReady is
IntervalEffectUnconditional(g) == [g EXCEPT !.timerRef = g.mounted]

\* the interval effect, lines 345-352, as the render that commits g runs it
IntervalEffect(g) == [g EXCEPT !.timerRef = g.mounted /\ g.isCameraReady]

\* a render of GestureControl for the updates queued from timers and promises
RenderGestureControl(g) ==
    IntervalEffect(
        [g EXCEPT !.isCameraReady = Apply(@, g.qReady),
                  !.error = Apply(@, g.qError),
                  !.isProcessing = Apply(@, g.qProcessing),
                  !.qReady = NoUpdate, !.qError = NoUpdate, !.qProcessing = NoUpdate])

Queued(g) == g.qReady # NoUpdate \/ g.qError # NoUpdate \/ g.qProcessing # NoUpdate

MaxAttempts == 2
MaxInFlight == 2

Idle == [pc |-> "idle", e1 |-> NoErr, e2 |-> NoErr, final |-> NoErr, wonBy |-> 0]

InitGestureControl ==
    /\ gc = [mounted |-> TRUE, streamRef |-> Null, srcObject |-> Null,
             videoDims |-> FALSE, metadataPending |-> FALSE,
             isCameraReady |-> FALSE, error |-> Null, isProcessing |-> FALSE,
             qReady |-> NoUpdate, qError |-> NoUpdate, qProcessing |-> NoUpdate,
             timerRef |-> FALSE]
    /\ live = {}
    /\ acq = Idle
    /\ attempt = 0
    /\ inFlight = 0

\* startCamera up to its first await, lines 258-270
startCamera(sync) ==
    /\ gc' = IntervalEffect(setError(stopCamera(gc, sync), Null, sync))
    /\ live' = stopTracks(gc, live)
    /\ acq' = [Idle EXCEPT !.pc = "s1"]
    /\ attempt' = attempt + 1

\* the mount effect, line 307
MountEffect ==
    /\ gc.mounted /\ attempt = 0
    /\ startCamera(FALSE)
    /\ UNCHANGED <<inFlight, appVars, classifierVars, canvasVars>>

\* the Retry button rendered in every state of the camera
RetryOfferedAlways(g) == g.mounted

\* line 405: the Retry button is rendered while error is set
RetryOffered(g) == g.mounted /\ g.error # Null

\* a click on the Retry button (lines 405-415)
Retry ==
    /\ RetryOffered(gc)
    /\ attempt < MaxAttempts
    /\ startCamera(TRUE)
    /\ UNCHANGED <<inFlight, appVars, classifierVars, canvasVars>>

\* getUserMedia resolves: lines 271, 280, 296
GetUserMediaResolves ==
    /\ acq.pc \in {"s1", "s2", "s3"}
    /\ gc' = handleStreamSuccess(gc, Stream(attempt))
    /\ live' = live \cup {Stream(attempt)}
    /\ acq' = [acq EXCEPT !.pc = "done",
                          !.wonBy = CASE acq.pc = "s1" -> 1
                                      [] acq.pc = "s2" -> 2
                                      [] OTHER -> 3]
    /\ UNCHANGED <<attempt, inFlight, appVars, classifierVars, canvasVars>>

\* every catch block handing its error to handleError and giving up
GetUserMediaRejectsAtOnce ==
    /\ acq.pc \in {"s1", "s2", "s3"}
    /\ \E err \in MediaErrors :
          /\ acq' = [acq EXCEPT !.pc = "done", !.final = err]
          /\ gc' = handleError(gc, err)
    /\ UNCHANGED <<live, attempt, inFlight, appVars, classifierVars, canvasVars>>

\* getUserMedia rejects: the catch blocks of lines 273, 282, 301
GetUserMediaRejects ==
    /\ acq.pc \in {"s1", "s2", "s3"}
    /\ \E err \in MediaErrors :
          CASE acq.pc = "s1" ->
                 /\ acq' = [acq EXCEPT !.pc = "s2", !.e1 = err]
                 /\ UNCHANGED gc
            [] acq.pc = "s2" ->
                 /\ acq' = [acq EXCEPT !.pc = "enum", !.e2 = err]
                 /\ UNCHANGED gc
            [] OTHER ->
                 /\ acq' = [acq EXCEPT !.pc = "done", !.final = err]
                 /\ gc' = handleError(gc, err)
    /\ UNCHANGED <<live, attempt, inFlight, appVars, classifierVars, canvasVars>>

\* enumerateDevices resolves, lines 288-300
EnumerateResolves ==
    /\ acq.pc = "enum"
    /\ \E videoDevices \in 0..1 :
          IF videoDevices > 0
          THEN /\ acq' = [acq EXCEPT !.pc = "s3"]
               /\ UNCHANGED gc
          ELSE /\ acq' = [acq EXCEPT !.pc = "done", !.final = NoDevicesError]
               /\ gc' = handleError(gc, NoDevicesError)
    /\ UNCHANGED <<live, attempt, inFlight, appVars, classifierVars, canvasVars>>

\* enumerateDevices rejects, line 301
EnumerateRejects ==
    /\ acq.pc = "enum"
    /\ \E err \in MediaErrors :
          /\ acq' = [acq EXCEPT !.pc = "done", !.final = err]
          /\ gc' = handleError(gc, err)
    /\ UNCHANGED <<live, attempt, inFlight, appVars, classifierVars, canvasVars>>

\* the video element fires loadedmetadata, lines 233-236
LoadedMetadata ==
    /\ gc.mounted /\ gc.metadataPending
    /\ gc' = setIsCameraReady(
                [gc EXCEPT !.metadataPending = FALSE, !.videoDims = TRUE],
                TRUE, FALSE)
    /\ UNCHANGED <<live, acq, attempt, inFlight, appVars, classifierVars, canvasVars>>

\* the unmount: React detaches the refs, then runs the cleanups of lines
\* 308-310 and 349-351
Unmount ==
    /\ gc.mounted
    /\ gc' = [stopCamera([gc EXCEPT !.mounted = FALSE], FALSE)
                 EXCEPT !.timerRef = FALSE,
                        !.qReady = NoUpdate, !.qError = NoUpdate,
                        !.qProcessing = NoUpdate]
    /\ live' = stopTracks(gc, live)
    /\ UNCHANGED <<acq, attempt, inFlight, appVars, classifierVars, canvasVars>>

-----------------------------------------------------------------------------
(***************************************************************************)
(* GestureControl: GestureSampler                                          *)
(***************************************************************************)

\* what the vision call answers while the sampler runs
SampledResponses ==
    {[kind |-> "throw", text |-> <<>>],
     [kind |-> "text", text |-> <<ObjText(FIST)>>],
     [kind |-> "text", text |-> <<FENCE, TAG_JSON, NL, ObjText(OPEN), NL, FENCE>>],
     [kind |-> "text", text |-> <<EMPTY_OBJECT>>]}

\* the guards of captureAndAnalyze, lines 314-317, on the cells of the render
\* that made the callback
PassesGuards(g) ==
    /\ g.mounted
    /\ g.isCameraReady
    /\ ~g.isProcessing
    /\ g.videoDims

\* an interval tick: captureAndAnalyze up to its await (lines 313-335); without
\* a key detectHandGesture has resolved before any other task runs, and the
\* rest of the function (lines 336-342) follows in the same task
Tick ==
    /\ gc.timerRef
    /\ \/ /\ PassesGuards(gc)
          /\ apiKey
          /\ inFlight < MaxInFlight
          /\ gc' = setIsProcessing(gc, TRUE, FALSE)
          /\ inFlight' = inFlight + 1
          /\ UNCHANGED appVars
       \/ /\ PassesGuards(gc)
          /\ ~apiKey
          /\ gc' = setIsProcessing(setIsProcessing(gc, TRUE, FALSE), FALSE, FALSE)
          /\ Publish(detectHandGesture(apiKey, [kind |-> "throw", text |-> <<>>]))
          /\ UNCHANGED inFlight
       \/ /\ ~PassesGuards(gc)
          /\ UNCHANGED <<gc, inFlight, appVars>>
    /\ UNCHANGED <<live, acq, attempt, classifierVars, canvasVars>>

\* a call of detectHandGesture settles: lines 336-342
ClassifySettles ==
    /\ inFlight > 0
    /\ \E rsp \in SampledResponses :
          IF gc.mounted
          THEN Publish(detectHandGesture(apiKey, rsp))
          ELSE UNCHANGED appVars
    /\ gc' = setIsProcessing(gc, FALSE, FALSE)
    /\ inFlight' = inFlight - 1
    /\ UNCHANGED <<live, acq, attempt, classifierVars, canvasVars>>

\* React renders the updates queued from timers, promises and media events
Render ==
    /\ gc.mounted
    /\ Queued(gc) \/ appQueue # NoUpdate
    /\ gc' = RenderGestureControl(gc)
    /\ RenderAppPart
    /\ UNCHANGED <<live, acq, attempt, inFlight, classifierVars, canvasVars>>

\* App.tsx lines 15-19
handleKeyDown ==
    /\ gc.mounted
    /\ SetShift(TRUE)
    /\ UNCHANGED <<gcVars, classifierVars, canvasVars>>

\* App.tsx lines 21-25
handleKeyUp ==
    /\ gc.mounted
    /\ SetShift(FALSE)
    /\ UNCHANGED <<gcVars, classifierVars, canvasVars>>

-----------------------------------------------------------------------------
(***************************************************************************)
(* ParticleCanvas.  Lengths and speeds are fixed-point numbers, in units   *)
(* of which UnitsPerPixel make one pixel; a product with 0.05, 0.1 or 0.35 *)
(* is rounded toward zero to a whole unit.                                 *)
(***************************************************************************)
UnitsPerPixel == 2 * 20

\* line 18 (1200 in the source)
particleCount == 2
\* line 132
maxSpeed == 2
\* line 149
repelRadius == 100

MaxFrames == 3

Px(n) == n * UnitsPerPixel
Point(x, y) == [x |-> x, y |-> y]
Size(w, h) == [width |-> w, height |-> h]

TruncDiv(a, b) == IF a >= 0 THEN a \div b ELSE -((-a) \div b)
Min(a, b) == IF a <= b THEN a ELSE b
Max(a, b) == IF a >= b THEN a ELSE b

RECURSIVE SqrtFrom(_, _)
SqrtFrom(n, r) == IF (r + 1) * (r + 1) > n THEN r ELSE SqrtFrom(n, r + 1)
\* Math.sqrt, to whole units, of a number of at most a few pixels squared;
\* larger ones start from the pixel grid
Sqrt(n) ==
    LET RECURSIVE Coarse(_)
        Coarse(r) == IF (r + UnitsPerPixel) * (r + UnitsPerPixel) > n
                     THEN r ELSE Coarse(r + UnitsPerPixel)
    IN  SqrtFrom(n, Coarse(0))

\* cos and sin of k twelfths of a turn, in thousandths
Cos12(k) ==
    CASE k % 12 \in {0}     -> 1000
      [] k % 12 \in {1, 11} -> 866
      [] k % 12 \in {2, 10} -> 500
      [] k % 12 \in {3, 9}  -> 0
      [] k % 12 \in {4, 8}  -> -500
      [] k % 12 \in {5, 7}  -> -866
      [] OTHER              -> -1000
Sin12(k) == Cos12(k + 9)

\* lines 38-54; theta = index / total * 8 pi, in twelfths of a turn
calculateFlowerTarget(index, total, centerX, centerY, width, height) ==
    LET theta == (48 * index) \div total
        scale == TruncDiv(Min(width, height) * 35, 100)
        r     == TruncDiv(scale * Cos12(5 * theta), 1000)
    IN  Point(centerX + TruncDiv(r * Cos12(theta), 1000),
              centerY + TruncDiv(r * Sin12(theta), 1000))

\* the easing adding to the velocity the particle had, instead of setting it
FlowerStepAccumulates(p, i, total, mouse, dims) ==
    LET target == calculateFlowerTarget(i, total, mouse.x, mouse.y,
                                        dims.width, dims.height)
        vx == p.vx + TruncDiv(target.x - p.x, 20)
        vy == p.vy + TruncDiv(target.y - p.y, 20)
    IN  [x |-> p.x + vx, y |-> p.y + vy, vx |-> vx, vy |-> vy]

\* lines 100-119
FlowerStep(p, i, total, mouse, dims) ==
    LET target == calculateFlowerTarget(i, total, mouse.x, mouse.y,
                                        dims.width, dims.height)
        vx == TruncDiv(target.x - p.x, 20)
        vy == TruncDiv(target.y - p.y, 20)
    IN  [x |-> p.x + vx, y |-> p.y + vy, vx |-> vx, vy |-> vy]

Clamp(v) == Max(Min(v, Px(maxSpeed)), -Px(maxSpeed))

\* lines 140-143: the two tests of a coordinate, one after the other
Wrap(c, bound) ==
    LET c1 == IF c < 0 THEN bound ELSE c
    IN  IF c1 > bound THEN 0 ELSE c1

\* lines 128-154; noise is the pair of (Math.random() - 0.5) * 0.1 drawn
OpenStep(p, noise, mouse, dims) ==
    LET vx1  == Clamp(p.vx + noise.x)
        vy1  == Clamp(p.vy + noise.y)
        x1   == Wrap(p.x + vx1, dims.width)
        y1   == Wrap(p.y + vy1, dims.height)
        dx   == x1 - mouse.x
        dy   == y1 - mouse.y
        d2   == dx * dx + dy * dy
        near == d2 < Px(repelRadius) * Px(repelRadius)
        dist == Sqrt(d2)
        force == TruncDiv(Px(repelRadius) - dist, 10)
        \* Math.atan2(0, 0) is 0: cos 1, sin 0
        fx   == IF dist = 0 THEN force ELSE TruncDiv(dx * force, dist)
        fy   == IF dist = 0 THEN 0 ELSE TruncDiv(dy * force, dist)
    IN  [x |-> x1, y |-> y1,
         vx |-> IF near THEN vx1 + fx ELSE vx1,
         vy |-> IF near THEN vy1 + fy ELSE vy1]

\* the forEach of lines 97-173 for one frame
StepAll(ps, gesture, noise, mouse, dims) ==
    [i \in 1..Len(ps) |->
        IF gesture = FIST
        THEN FlowerStep(ps[i], i - 1, Len(ps), mouse, dims)
        ELSE OpenStep(ps[i], noise[i], mouse, dims)]

\* lines 17-34; seeds are the Math.random() values drawn, positions in
\* quarters of the surface
initParticles(width, height, seeds) ==
    [i \in 1..particleCount |->
        [x |-> TruncDiv(seeds[i].fx * width, 4),
         y |-> TruncDiv(seeds[i].fy * height, 4),
         vx |-> seeds[i].vx, vy |-> seeds[i].vy]]

\* a resize seeding the population again
handleResizeReseeds(ps, width, height, seeds) ==
    [particles |-> initParticles(width, height, seeds), made |-> 1]

\* lines 63-73: the population after handleResize, and whether it was made
handleResize(ps, width, height, seeds) ==
    IF Len(ps) = 0
    THEN [particles |-> initParticles(width, height, seeds), made |-> 1]
    ELSE [particles |-> ps, made |-> 0]

\* the values Math.random() is sampled at
Seeds ==
    {[fx |-> 0, fy |-> 2, vx |-> -Px(1), vy |-> 0],
     [fx |-> 3, fy |-> 1, vx |-> Px(1) - 1, vy |-> -UnitsPerPixel \div 2]}
Noises == {Point(-2, 0), Point(1, 1)}

\* the window sizes and pointer places the model draws from, in pixels
WindowSizes == {Size(0, 0), Size(Px(400), Px(300))}
PointerPlaces == {Point(Px(10), Px(140))}

\* the draws of Math.random() for a whole population: every particle the
\* same draw, or the even and the odd ones different draws
Draws(n, samples) ==
    {[i \in 1..n |-> IF i % 2 = 0 THEN a ELSE b] : a \in samples, b \in samples}

\* a step draws nothing in flower mode, and initParticles draws only when it
\* is called
NoiseDraws(ps, gesture) ==
    IF gesture = FIST
    THEN {[i \in 1..Len(ps) |-> Point(0, 0)]}
    ELSE Draws(Len(ps), Noises)
SeedDraws(ps) ==
    IF Len(ps) = 0
    THEN Draws(particleCount, Seeds)
    ELSE {[i \in 1..particleCount |-> CHOOSE s \in Seeds : TRUE]}

Centre(win) == Point(win.width \div 2, win.height \div 2)

InitCanvas ==
    /\ window \in WindowSizes
    /\ particlesRef = <<>>
    /\ dimensionsRef = Size(0, 0)
    /\ mouseRef = Centre(window)
    /\ effect = [active |-> FALSE, gesture |-> NONE]
    /\ animationFrameRef = 0
    /\ frames = {}
    /\ canvasLog = [frameIds |-> 0, initCalls |-> 0,
                    flower |-> FALSE, open |-> FALSE, resized |-> FALSE]

\* animate, lines 86-179, run with the gesture its closure holds
animate(ps, gesture, mouse, dims, pending) ==
    /\ canvasLog.frameIds < MaxFrames
    /\ \E noise \in NoiseDraws(ps, gesture) :
          particlesRef' = StepAll(ps, gesture, noise, mouse, dims)
    /\ animationFrameRef' = canvasLog.frameIds + 1
    /\ frames' = pending \cup {[id |-> canvasLog.frameIds + 1, gesture |-> gesture]}

\* the effect of lines 56-188 runs for `gesture`: the cleanup of the effect
\* before it (lines 183-187), then its body
RunEffect(gesture) ==
    \E seeds \in SeedDraws(particlesRef) :
       LET resized == handleResize(particlesRef, window.width, window.height, seeds)
           kept    == IF effect.active /\ animationFrameRef # 0
                      THEN {f \in frames : f.id # animationFrameRef}
                      ELSE frames
       IN  /\ dimensionsRef' = window
           /\ mouseRef' = Centre(window)
           /\ animate(resized.particles, gesture, Centre(window), window, kept)
           /\ effect' = [active |-> TRUE, gesture |-> gesture]
           /\ canvasLog' = [canvasLog EXCEPT
                               !.frameIds = @ + 1,
                               !.initCalls = @ + resized.made,
                               !.flower = @ \/ gesture = FIST,
                               !.open = @ \/ gesture # FIST]
           /\ UNCHANGED window

\* the component mounts
CanvasMount ==
    /\ ~effect.active
    /\ RunEffect(currentGesture)
    /\ UNCHANGED <<appVars, gcVars, classifierVars>>

\* a render hands ParticleCanvas its gesture prop; the effect depends on it
CanvasProps ==
    IF effect.active /\ currentGesture' # effect.gesture
    THEN RunEffect(currentGesture')
    ELSE UNCHANGED canvasVars

\* a frame callback runs: animate
AnimationFrame ==
    /\ \E f \in frames :
          /\ animate(particlesRef, f.gesture, mouseRef, dimensionsRef, frames \ {f})
          /\ canvasLog' = [canvasLog EXCEPT
                              !.frameIds = @ + 1,
                              !.flower = @ \/ f.gesture = FIST,
                              !.open = @ \/ f.gesture # FIST]
    /\ UNCHANGED <<dimensionsRef, mouseRef, window, effect>>
    /\ UNCHANGED <<appVars, gcVars, classifierVars>>

\* the window is resized: the listener of line 75
WindowResize ==
    /\ effect.active
    /\ \E size \in WindowSizes, seeds \in SeedDraws(particlesRef) :
          LET resized == handleResize(particlesRef, size.width, size.height, seeds)
          IN  /\ window' = size
              /\ dimensionsRef' = size
              /\ particlesRef' = resized.particles
              /\ canvasLog' = [canvasLog EXCEPT !.initCalls = @ + resized.made,
                                                !.resized = TRUE]
    /\ UNCHANGED <<mouseRef, effect, animationFrameRef, frames>>
    /\ UNCHANGED <<appVars, gcVars, classifierVars>>

\* lines 81-83
handleMouseMove ==
    /\ effect.active
    /\ \E place \in PointerPlaces : mouseRef' = place
    /\ UNCHANGED <<particlesRef, dimensionsRef, window, effect,
                   animationFrameRef, frames, canvasLog>>
    /\ UNCHANGED <<appVars, gcVars, classifierVars>>

\* a render has handed down another gesture than the one the effect last ran
\* for: the effect of line 56 waits to run.  React runs a waiting effect
\* before it renders again, so a render finds none waiting
EffectPending == effect.active /\ effect.gesture # currentGesture

\* App.tsx as ParticleCanvas sees it.  The render of a key event runs the
\* effect before the event ends; the render of a label, which comes from a
\* promise, leaves the effect to a later task, and a frame callback may run
\* before it
CanvasKeyDown ==
    /\ effect.active /\ ~EffectPending
    /\ SetShift(TRUE)
    /\ CanvasProps
    /\ UNCHANGED <<gcVars, classifierVars>>

CanvasKeyUp ==
    /\ effect.active /\ ~EffectPending
    /\ SetShift(FALSE)
    /\ CanvasProps
    /\ UNCHANGED <<gcVars, classifierVars>>

\* onGestureDetected is called with a label, and React renders it
CanvasLabel ==
    /\ effect.active /\ ~EffectPending
    /\ appQueue = NoUpdate
    /\ \E label \in GestureType :
          /\ cameraGesture' = label
          /\ currentGesture' = CombineGesture(isShiftPressed, label)
          /\ lastPublished' = [label |-> label, held |-> isShiftPressed]
    /\ UNCHANGED <<isShiftPressed, appQueue>>
    /\ UNCHANGED <<canvasVars, gcVars, classifierVars>>

\* React runs the waiting effect: the cleanup of lines 183-187, then the body
CanvasEffect ==
    /\ EffectPending
    /\ RunEffect(currentGesture)
    /\ UNCHANGED <<appVars, gcVars, classifierVars>>

-----------------------------------------------------------------------------
Init ==
    /\ InitClassifier
    /\ InitApp
    /\ InitGestureControl
    /\ InitCanvas

Next ==
    \/ MountEffect
    \/ Retry
    \/ GetUserMediaResolves
    \/ GetUserMediaRejects
    \/ EnumerateResolves
    \/ EnumerateRejects
    \/ LoadedMetadata
    \/ Unmount
    \/ Tick
    \/ ClassifySettles
    \/ Render
    \/ handleKeyDown
    \/ handleKeyUp

\* App and GestureControl
InitOfGesture == Init /\ window = Size(0, 0)
Spec == InitOfGesture /\ [][Next]_vars

NextClassifier ==
    \/ CallDetect /\ UNCHANGED <<appVars, gcVars, canvasVars>>
    \/ ApiSettles /\ UNCHANGED <<appVars, gcVars, canvasVars>>

\* the classifier alone
InitOfClassifier == Init /\ window = Size(0, 0)
SpecClassifier == InitOfClassifier /\ [][NextClassifier]_vars

NextCanvas ==
    \/ CanvasMount
    \/ AnimationFrame
    \/ WindowResize
    \/ handleMouseMove
    \/ CanvasKeyDown
    \/ CanvasKeyUp
    \/ CanvasLabel
    \/ CanvasEffect

\* App and ParticleCanvas, the labels arriving as the sampler may send them
InitOfCanvas == Init /\ apiKey = TRUE
SpecCanvas == InitOfCanvas /\ [][NextCanvas]_vars

-----------------------------------------------------------------------------
(***************************************************************************)
(* Properties                                                              *)
(***************************************************************************)

\* the value a cell has once the queued update is rendered
Pending(cell, queue) == Apply(cell, queue)

\* C1: at most one call of detectHandGesture is in flight, whatever the
\* order of interval ticks, renders and settled calls.
C1_SingleFlight == inFlight <= 1

\* C2: the gesture handed to ParticleCanvas and GestureControl is FIST while
\* Shift is held and the camera label cell otherwise.
C2_AuthoritativeGesture ==
    currentGesture = (IF isShiftPressed THEN FIST ELSE cameraGesture)

\* C2 witness: Shift is held, the sampler has published OPEN and the render
\* has put it in the cell.
C2_Witness ==
    /\ isShiftPressed
    /\ lastPublished = [label |-> OPEN, held |-> TRUE]
    /\ cameraGesture = OPEN
    /\ currentGesture = FIST

\* C3: with Shift released and every published label rendered, the gesture
\* handed down is the last label the sampler published, whether or not Shift
\* was held when it was published; no further sampling tick is needed.
C3_RevertsToLastPublished ==
    (gc.mounted /\ ~isShiftPressed /\ appQueue = NoUpdate)
        => currentGesture = lastPublished.label

\* C3 witness: OPEN was published while Shift was held, Shift is released
\* and the gesture handed down is OPEN.
C3_Witness ==
    /\ gc.mounted /\ ~isShiftPressed /\ appQueue = NoUpdate
    /\ lastPublished = [label |-> OPEN, held |-> TRUE]
    /\ currentGesture = OPEN

\* C4: at most one stream is live at any time, and none is after the
\* unmount's teardown.
C4_AtMostOneLiveStream ==
    /\ Cardinality(live) <= 1
    /\ ~gc.mounted => live = {}

\* C5: when strategies 1 and 2 failed and the request by device identity
\* succeeded, the stream is bound, the error stays cleared, and once the
\* metadata event has been handled and rendered the camera is ready.
C5_Strategy3Succeeds ==
    (gc.mounted /\ acq.pc = "done" /\ acq.wonBy = 3)
        => /\ gc.streamRef = Stream(attempt)
           /\ gc.srcObject = Stream(attempt)
           /\ live = {Stream(attempt)}
           /\ Pending(gc.error, gc.qError) = Null
           /\ (~gc.metadataPending /\ ~Queued(gc))
                 => (gc.isCameraReady /\ gc.error = Null)

\* C5 witness: strategy 3 won and the camera is ready.
C5_Witness ==
    /\ gc.mounted /\ acq.pc = "done" /\ acq.wonBy = 3
    /\ acq.e1 # NoErr /\ acq.e2 # NoErr
    /\ gc.isCameraReady /\ gc.error = Null /\ ~Queued(gc)

PermissionDenial == {"NotAllowedError", "PermissionDeniedError"}

AllDenied ==
    /\ acq.pc = "done" /\ acq.wonBy = 0
    /\ acq.e1.name \in PermissionDenial
    /\ acq.e2.name \in PermissionDenial
    /\ acq.final.name \in PermissionDenial

\* C6: when all three strategies failed with a permission denial, the error
\* is the permission-denied message, the camera is not ready and no stream
\* is bound.
C6_PermissionDenied ==
    (gc.mounted /\ AllDenied)
        => /\ Pending(gc.error, gc.qError) = MSG_DENIED
           /\ Pending(gc.isCameraReady, gc.qReady) = FALSE
           /\ ~Queued(gc) => (gc.error = MSG_DENIED /\ ~gc.isCameraReady)
           /\ gc.streamRef = Null /\ gc.srcObject = Null /\ live = {}

\* C6 witness: all three denied, and the error is rendered.
C6_Witness ==
    /\ gc.mounted /\ AllDenied
    /\ gc.error = MSG_DENIED /\ ~Queued(gc)

NotFound == {"NotFoundError", "DevicesNotFoundError"}

\* C7: when strategies 1 and 2 failed with a not-found error and the
\* enumeration held no video input, the error is the no-camera-found message.
C7_NoCameraFound ==
    (/\ gc.mounted /\ acq.pc = "done" /\ acq.wonBy = 0
     /\ acq.e1.name \in NotFound /\ acq.e2.name \in NotFound
     /\ acq.final = NoDevicesError)
        => Pending(gc.error, gc.qError) = MSG_NOT_FOUND

\* C8: whatever the vision call does, detectHandGesture resolves to FIST,
\* OPEN or NONE, and to NONE when the payload is empty or unparseable.
C8_AlwaysALabel ==
    callState = "returned"
        => /\ returned \in GestureType
           /\ (response.kind = "text" /\ response.body \in {<<>>, <<PROSE>>})
                 => returned = NONE

Labelled == {<<ObjText(g)>> : g \in GestureType}
LabelOf(body) == JsonValue(body[1]).gesture

\* a label object inside a fence, with or without the json tag, with any
\* white space around the fence lines
FencedLabel(rsp) ==
    /\ rsp.kind = "text"
    /\ rsp.body \in Labelled
    /\ rsp.open # <<>> /\ rsp.close # <<>>
    /\ \A i \in 1..Len(rsp.open) : rsp.open[i] # TAG_OTHER

\* C9: a label object wrapped in a Markdown fence is unwrapped and its label
\* returned.
C9_FencedLabelExtracted ==
    (callState = "returned" /\ FencedLabel(response))
        => returned = LabelOf(response.body)

\* C10: once a population exists, no step, gesture switch or resize changes
\* its count or creates it anew, and a resize leaves every particle where
\* it was.
C10_PopulationKept ==
    [][particlesRef # <<>> =>
          /\ Len(particlesRef') = Len(particlesRef)
          /\ canvasLog'.initCalls = canvasLog.initCalls
          /\ window' # window => particlesRef' = particlesRef]_vars

\* C10 witness: the population has stepped in both modes and lived through
\* a resize.
C10_Witness ==
    /\ Len(particlesRef) = particleCount
    /\ canvasLog.flower /\ canvasLog.open /\ canvasLog.resized
    /\ canvasLog.initCalls = 1
    /\ canvasLog.frameIds = MaxFrames

-----------------------------------------------------------------------------
\* the mode of the physics step this transition has run, if it has run one:
\* animate leaves the frame it requests, with the gesture of its closure
Stepped(mode) ==
    /\ canvasLog'.frameIds # canvasLog.frameIds
    /\ \E f \in frames' :
          /\ f.id = canvasLog'.frameIds
          /\ (f.gesture = FIST) = (mode = "flower")

Abs(n) == IF n < 0 THEN -n ELSE n

\* C11: after a step in open mode on a surface of positive area, every
\* particle has 0 <= x < width and 0 <= y < height.
C11_WrappedIntoSurface ==
    [][(/\ Stepped("open")
        /\ dimensionsRef'.width > 0 /\ dimensionsRef'.height > 0)
          => \A i \in 1..Len(particlesRef') :
                /\ 0 <= particlesRef'[i].x
                /\ particlesRef'[i].x < dimensionsRef'.width
                /\ 0 <= particlesRef'[i].y
                /\ particlesRef'[i].y < dimensionsRef'.height]_vars

\* the offset left after a step is 19/20 of the offset before it, rounded to
\* the unit of length, and on the same side of the target
Eased(before, after) ==
    /\ before * after >= 0
    /\ 19 * Abs(before) <= 20 * Abs(after)
    /\ 20 * Abs(after) <= 19 * Abs(before) + 19
    /\ Abs(after) <= Abs(before)

\* C12: a step in flower mode with the pointer and the surface as they were
\* leaves every particle at 0.95 of its former offset from its rose-curve
\* target, on both axes, so its distance to the target never grows.
C12_FlowerEasing ==
    [][(/\ Stepped("flower")
        /\ particlesRef # <<>>
        /\ mouseRef' = mouseRef /\ dimensionsRef' = dimensionsRef)
          => \A i \in 1..Len(particlesRef) :
                LET target == calculateFlowerTarget(
                                  i - 1, Len(particlesRef), mouseRef.x, mouseRef.y,
                                  dimensionsRef.width, dimensionsRef.height)
                IN  /\ Eased(target.x - particlesRef[i].x,
                             target.x - particlesRef'[i].x)
                    /\ Eased(target.y - particlesRef[i].y,
                             target.y - particlesRef'[i].y)]_vars

\* C12 witness: in flower mode on a sized surface, after the last frame, a
\* particle is still moving toward its target.
C12_Witness ==
    /\ effect.active /\ effect.gesture = FIST
    /\ canvasLog.flower /\ canvasLog.frameIds = MaxFrames
    /\ dimensionsRef.width > 0
    /\ frames # {} /\ \A f \in frames : f.gesture = FIST
    /\ \E i \in 1..Len(particlesRef) : particlesRef[i].vx # 0

\* C13: on a surface of zero width or height a physics step changes no
\* particle.
C13_ZeroAreaNoOp ==
    [][(/\ canvasLog'.frameIds # canvasLog.frameIds
        /\ particlesRef # <<>>
        /\ dimensionsRef'.width = 0 \/ dimensionsRef'.height = 0)
          => particlesRef' = particlesRef]_vars

\* C14: once the effect has run, a change of the gesture handed down, a
\* resize or a physics step leaves the pointer position as it was.
C14_PointerWrittenByMoveOnly ==
    [][(/\ effect.active
        /\ \/ currentGesture' # currentGesture
           \/ window' # window
           \/ canvasLog'.frameIds # canvasLog.frameIds)
          => mouseRef' = mouseRef]_vars

-----------------------------------------------------------------------------
\* CameraSource is ready: the component is mounted, a stream is bound to the
\* video element, and the render the callbacks come from has isCameraReady
\* true and no error
CameraReady(g) ==
    /\ g.mounted
    /\ g.isCameraReady /\ g.error = Null
    /\ g.streamRef # Null /\ g.srcObject = g.streamRef

\* this transition starts a capture/classify cycle: a call of
\* detectHandGesture is made, or, without a key, the cycle has run to its end
ACycleStarts ==
    \/ inFlight' > inFlight
    \/ /\ inFlight' = inFlight
       /\ gc'.qProcessing # gc.qProcessing
       /\ gc'.qProcessing = Update(FALSE)

\* C15: the interval is armed only while the camera is ready, and a cycle is
\* started only by an armed interval of a ready camera: never before the
\* stream is bound, in error, or after the teardown.
C15_SamplerOnlyWhileReady ==
    [][/\ gc.timerRef => CameraReady(gc)
       /\ ACycleStarts => (gc.timerRef /\ CameraReady(gc) /\ gc.videoDims)]_vars

\* C15 witness: the component was torn down while a cycle was in flight; the
\* interval is cleared and the stream released.
C15_Witness ==
    /\ ~gc.mounted /\ ~gc.timerRef
    /\ gc.streamRef = Null
    /\ inFlight = 1

\* C16: a cycle that completes on the mounted component publishes FIST, OPEN
\* or NONE and sets the busy flag to false.
C16_CycleCompletes ==
    [][(gc.mounted /\ inFlight' < inFlight)
          => /\ lastPublished'.label \in GestureType
             /\ Pending(gc'.isProcessing, gc'.qProcessing) = FALSE]_vars

\* C19: a tick that fires while a cycle is in flight, or while the video has
\* no intrinsic size, starts no call, leaves the busy flag alone and
\* publishes nothing.
C19_TickDropped ==
    [][(inFlight > 0 \/ ~gc.videoDims)
          => /\ inFlight' <= inFlight
             /\ inFlight' = inFlight =>
                   /\ gc'.qProcessing = gc.qProcessing \/ gc'.qProcessing = NoUpdate
                   /\ lastPublished' = lastPublished]_vars

\* C20: the camera is never ready and in error at once, in the rendered
\* cells and in the values queued for the next render.
C20_ReadyXorError ==
    /\ ~(gc.isCameraReady /\ gc.error # Null)
    /\ ~(/\ Pending(gc.isCameraReady, gc.qReady)
         /\ Pending(gc.error, gc.qError) # Null)

\* C20 witness: the first acquisition ended in error, the retry is ready.
C20_Witness ==
    /\ gc.mounted /\ attempt = 2
    /\ gc.isCameraReady /\ gc.error = Null /\ ~Queued(gc)

-----------------------------------------------------------------------------
\* the state of CameraSource, read from the values the cells have once the
\* queued updates are rendered
CameraState(g, n) ==
    CASE n = 0 -> "uninitialized"
      [] Pending(g.isCameraReady, g.qReady) -> "ready"
      [] Pending(g.error, g.qError) # Null -> "error"
      [] OTHER -> "acquiring"

Acquisition ==
    {<<"uninitialized", "acquiring">>, <<"acquiring", "ready">>,
     <<"acquiring", "error">>}

\* startCamera is entered again
Restarted == attempt > 0 /\ attempt' # attempt

\* C17 as stated: the camera goes from uninitialized to acquiring to ready or
\* to error, and both in error and in ready, once rendered, a retry is
\* accepted, which re-enters acquiring with the stream torn down.
C17_RetryFromErrorAndReady ==
    [][(gc.mounted /\ gc'.mounted)
          => LET from == CameraState(gc, attempt)
                 to   == CameraState(gc', attempt')
             IN  /\ from # to => <<from, to>> \in
                       Acquisition \cup {<<"error", "acquiring">>,
                                         <<"ready", "acquiring">>}
                 /\ (from \in {"error", "ready"} /\ ~Queued(gc))
                       => RetryOffered(gc)
                 /\ Restarted
                       => /\ to = "acquiring"
                          /\ gc'.streamRef = Null /\ live' = {}]_vars

\* C17 amended: the camera goes from uninitialized to acquiring to ready or
\* to error; a retry is accepted in error only, once the error is rendered,
\* and re-enters acquiring with ready false, the error cleared and no stream
\* held; the mounted component makes no other transition.
C17_RetryFromErrorOnly ==
    [][(gc.mounted /\ gc'.mounted)
          => LET from == CameraState(gc, attempt)
                 to   == CameraState(gc', attempt')
             IN  /\ from # to => <<from, to>> \in
                       Acquisition \cup {<<"error", "acquiring">>}
                 /\ RetryOffered(gc) <=> (from = "error" /\ gc.qError = NoUpdate)
                 /\ Restarted
                       => /\ from = "error" /\ to = "acquiring"
                          /\ ~gc'.isCameraReady /\ gc'.error = Null
                          /\ ~Queued(gc')
                          /\ gc'.streamRef = Null /\ gc'.srcObject = Null
                          /\ live' = {}]_vars

\* C17 witness: after an error and a retry the camera is acquiring again.
C17_Witness ==
    /\ gc.mounted /\ attempt = 2 /\ acq.pc = "s1"
    /\ CameraState(gc, attempt) = "acquiring"
    /\ acq.e1 = NoErr

StrategyOf(pc) ==
    CASE pc = "s1" -> 1 [] pc = "s2" -> 2 [] pc \in {"enum", "s3"} -> 3 [] OTHER -> 0

\* C18: within an acquisition strategy 2 is tried only after strategy 1
\* failed and strategy 3 only after strategy 2 failed; a success ends the
\* acquisition at the strategy that won; an error is set only when all three
\* have failed, and it is the message of the last failure.
C18_OrderedFallback ==
    [][/\ (acq'.pc # acq.pc /\ ~Restarted /\ attempt > 0)
          => /\ \/ StrategyOf(acq'.pc) = StrategyOf(acq.pc) + 1
                \/ acq.pc = "enum" /\ acq'.pc = "s3"
                \/ acq'.pc = "done"
             /\ StrategyOf(acq'.pc) >= 2 => acq'.e1 # NoErr
             /\ StrategyOf(acq'.pc) = 3 => acq'.e2 # NoErr
             /\ (acq'.pc = "done" /\ acq'.wonBy > 0)
                   => /\ acq'.wonBy = StrategyOf(acq.pc)
                      /\ acq'.final = NoErr
                      /\ Pending(gc'.error, gc'.qError) = Null
       /\ acq.pc = "done" => (acq'.pc = "done" \/ Restarted)
       /\ (/\ Pending(gc'.error, gc'.qError) # Null
           /\ Pending(gc.error, gc.qError) = Null)
          => /\ acq'.pc = "done" /\ acq'.wonBy = 0
             /\ acq'.e1 # NoErr /\ acq'.e2 # NoErr /\ acq'.final # NoErr
             /\ Pending(gc'.error, gc'.qError) = ErrorMessage(acq'.final)]_vars

\* C18 witness: three different failures, and the error names the last.
C18_Witness ==
    /\ gc.mounted /\ acq.pc = "done" /\ acq.wonBy = 0
    /\ acq.e1.name = "NotAllowedError"
    /\ acq.e2.name = "NotFoundError"
    /\ acq.final.name = "NotReadableError"
    /\ gc.error = MSG_IN_USE /\ ~Queued(gc)

-----------------------------------------------------------------------------
\* C21: at most one frame callback is pending at any time, and every physics
\* step runs with the gesture handed down at that moment.
C21_OneLoopCurrentGesture ==
    [][/\ Cardinality(frames) <= 1 /\ Cardinality(frames') <= 1
       /\ canvasLog'.frameIds # canvasLog.frameIds
             => \E f \in frames' : /\ f.id = canvasLog'.frameIds
                                   /\ f.gesture = currentGesture']_vars

=============================================================================
